---- MODULE Spec2Model ----
(***************************************************************************)
(* Model of the User Management API (src/main.py): one "users" table with  *)
(* parent and child rows, and the create / update / delete / bulk-delete / *)
(* fetch handlers that read and write it.                                   *)
(***************************************************************************)
EXTENDS Integers, Sequences, FiniteSets, TLC

VARIABLES users, pc, request, response, sessions

vars == <<users, pc, request, response, sessions>>

----------------------------------------------------------------------------
(* Bounds *)

\* largest row id the store may hand out
MaxId == 4
\* number of sessions open at the same time
NSessions == 2
\* largest number of creations behind the table that overlapping sessions start from
MaxSeed == 2

----------------------------------------------------------------------------
(* Values *)

\* JSON null / Python None for a string field, and "key not in the payload"
Null == "<null>"
Absent == "<absent>"
\* the same two for the integer field parent_id (row ids start at 1)
NullId == 0
AbsentId == -1

Ids == 1 .. MaxId
\* ids a request may name: every id the store can hold and one it never holds
ReqIds == 1 .. (MaxId + 1)

FirstNames == {"", " ", "a"}
LastNames == {"", "b"}
Streets == {"", "s", " s"}
Cities == {"c"}
States == {"t"}
ZipCodes == {"z"}

\* str.strip() on the strings above
strip(v) ==
    CASE v = " " -> ""
      [] v = " s" -> "s"
      [] OTHER -> v

\* len(v) on the strings above
len(v) ==
    CASE v = "" -> 0
      [] v = " s" -> 2
      [] OTHER -> 1

address_fields == <<"street", "city", "state", "zip_code">>

----------------------------------------------------------------------------
(* The users table *)

\* a row of the table; id is the key of the function `users`
User(fn, ln, ut, st, ci, sa, zc, pid) ==
    [first_name |-> fn, last_name |-> ln, user_type |-> ut,
     street |-> st, city |-> ci, state |-> sa, zip_code |-> zc,
     parent_id |-> pid]

\* the CHECK constraints of the table
valid_user_type(r) == r.user_type \in {"parent", "child"}
parent_no_parent_id(r) == ~(r.user_type = "parent" /\ r.parent_id # NullId)
child_must_have_parent(r) == ~(r.user_type = "child" /\ r.parent_id = NullId)
child_no_address(r) ==
    ~(r.user_type = "child" /\
      (r.street # Null \/ r.city # Null \/ r.state # Null \/ r.zip_code # Null))
\* the NOT NULL columns
not_nullable(r) ==
    r.first_name # Null /\ r.last_name # Null /\ r.user_type # Null

table_args(r) ==
    /\ valid_user_type(r)
    /\ parent_no_parent_id(r)
    /\ child_must_have_parent(r)
    /\ child_no_address(r)
    /\ not_nullable(r)

SetMax(S) == CHOOSE m \in S : \A x \in S : x <= m

\* mutation: the number of rows plus one, an id that may be in use
NewId_count(u) == Cardinality(DOMAIN u) + 1

\* id = Column(Integer, primary_key=True): SQLite rowid, largest id plus one
NewId(u) == IF DOMAIN u = {} THEN 1 ELSE SetMax(DOMAIN u) + 1

Remove(u, D) == [i \in DOMAIN u \ D |-> u[i]]

\* mutation: the relationship loads nothing
ChildIds_none(u, id) == {}

\* db.query(User).filter(User.parent_id == id)
ChildIds(u, id) == {c \in DOMAIN u : u[c].parent_id = id}

\* the ids of a set as a list in rowid order
RECURSIVE SortedIds(_)
SortedIds(S) ==
    IF S = {} THEN <<>>
    ELSE LET m == SetMax(S) IN Append(SortedIds(S \ {m}), m)

----------------------------------------------------------------------------
(* Request payloads and the pydantic schemas *)

\* a JSON body: every key the schemas know, Absent when the body lacks it
Payload(ut, fn, ln, st, ci, sa, zc, pid, ch) ==
    [user_type |-> ut, first_name |-> fn, last_name |-> ln,
     street |-> st, city |-> ci, state |-> sa, zip_code |-> zc,
     parent_id |-> pid, children |-> ch]

NoPayload ==
    Payload(Absent, Absent, Absent, Absent, Absent, Absent, Absent, AbsentId, Absent)

IsStr(v) == v \notin {Null, Absent}

\* str = Field(..., min_length=1)
min_length_1(v) == IsStr(v) /\ len(v) >= 1

\* ParentCreate.validate_not_empty_string accepts v
validate_not_empty_string(v) == strip(v) # ""

\* the body parses as ParentCreate
ParentCreate(p) ==
    /\ \A f \in {"first_name", "last_name", "street", "city", "state", "zip_code"} :
          min_length_1(p[f]) /\ validate_not_empty_string(p[f])
    /\ p.user_type \in {Absent, "parent"}
    /\ p.parent_id = AbsentId
    /\ p.children = Absent

\* ParentCreate(...).model_dump()
ParentCreate_model_dump(p) ==
    [first_name |-> strip(p.first_name), last_name |-> strip(p.last_name),
     user_type |-> "parent",
     street |-> strip(p.street), city |-> strip(p.city),
     state |-> strip(p.state), zip_code |-> strip(p.zip_code)]

\* mutation: keys outside the schema are ignored instead of forbidden
ChildCreate_allow_extra(p) ==
    /\ min_length_1(p.first_name)
    /\ min_length_1(p.last_name)
    /\ p.user_type \in {Absent, "child"}
    /\ p.parent_id \notin {AbsentId, NullId}

\* the body parses as ChildCreate
ChildCreate(p) ==
    /\ min_length_1(p.first_name)
    /\ min_length_1(p.last_name)
    /\ p.user_type \in {Absent, "child"}
    /\ p.parent_id \notin {AbsentId, NullId}
    /\ \A f \in {"street", "city", "state", "zip_code", "children"} : p[f] = Absent

\* ChildCreate(...).model_dump()
ChildCreate_model_dump(p) ==
    [first_name |-> p.first_name, last_name |-> p.last_name,
     user_type |-> "child", parent_id |-> p.parent_id]

\* mutation: keys outside the schema are ignored instead of forbidden
UserUpdate_allow_extra(p) == TRUE

\* the body parses as UserUpdate: every field optional, no other key allowed
UserUpdate(p) ==
    /\ p.user_type = Absent
    /\ p.children = Absent

UpdateKeys ==
    {"first_name", "last_name", "street", "city", "state", "zip_code", "parent_id"}

\* Python None for the field named f
NoneOf(f) == IF f = "parent_id" THEN NullId ELSE Null
AbsentOf(f) == IF f = "parent_id" THEN AbsentId ELSE Absent

\* mutation: a string the body gives as null dumps as the empty string
UserUpdate_model_dump_null_as_empty(p) ==
    [f \in UpdateKeys |->
        IF p[f] = AbsentOf(f) THEN NoneOf(f)
        ELSE IF f # "parent_id" /\ p[f] = Null THEN "" ELSE p[f]]

\* UserUpdate(...).model_dump(): a key the body lacks dumps as None
UserUpdate_model_dump(p) ==
    [f \in UpdateKeys |-> IF p[f] = AbsentOf(f) THEN NoneOf(f) ELSE p[f]]

\* the keys of update_dict: the dumped fields whose value is not None
update_dict(d) == {f \in DOMAIN d : d[f] # NoneOf(f)}

\* User(**user_dict): a column the dict lacks is None
NewUser(d) ==
    [f \in {"first_name", "last_name", "user_type", "street", "city", "state",
            "zip_code", "parent_id"} |->
        IF f \in DOMAIN d THEN d[f] ELSE NoneOf(f)]

----------------------------------------------------------------------------
(* Responses *)

NoBody == [kind |-> "none"]

HTTPException(code, text) == [status |-> code, detail |-> text, body |-> NoBody]

Ok(code, b) == [status |-> code, detail |-> "", body |-> b]

NoResponse == [status |-> 0, detail |-> "", body |-> NoBody]

UserNotFound == "User with id {user_id} not found"
ParentNotFound == "Parent user with id {parent_id} not found"
NotAParent == "parent_id must reference a user with user type 'parent'"
ParentHasParentId == "Parent users cannot have a parent_id"
ChildHasAddress(f) ==
    CASE f = "street" -> "Child users cannot have address field: 'street'"
      [] f = "city" -> "Child users cannot have address field: 'city'"
      [] f = "state" -> "Child users cannot have address field: 'state'"
      [] OTHER -> "Child users cannot have address field: 'zip_code'"
NoValidFields == "No valid fields provided for update"
ConfirmRequired ==
    "To delete all users, you must pass confirm=true as a query parameter"
ErrorCreating == "Error creating user: {e}"
ErrorUpdating == "Error updating user: {e}"
\* the 422 FastAPI answers when the body matches no schema
RequestValidationError == "RequestValidationError"

\* response_model=UserResponse: the row and, through User.children, the rows
\* whose parent_id is its id, each serialized the same way
RECURSIVE UserResponse(_, _, _)
UserResponse(u, id, depth) ==
    [id |-> id,
     first_name |-> u[id].first_name, last_name |-> u[id].last_name,
     user_type |-> u[id].user_type,
     street |-> u[id].street, city |-> u[id].city,
     state |-> u[id].state, zip_code |-> u[id].zip_code,
     parent_id |-> u[id].parent_id,
     children |->
        IF depth = 0 THEN <<>>
        ELSE LET ids == SortedIds(ChildIds(u, id))
             IN  [k \in 1 .. Len(ids) |-> UserResponse(u, ids[k], depth - 1)]]

Outcome(u, r) == [users |-> u, response |-> r]

----------------------------------------------------------------------------
(* The handlers, each run to completion on the table u *)

\* flush of an INSERT or UPDATE of row r: the table's constraints decide
Flushes(r) == table_args(r)

\* db.add(new_user); db.commit(); db.refresh(new_user); return new_user
AddAndCommit(u, row) ==
    IF Flushes(row)
    THEN LET id == NewId(u)
             v  == (id :> row) @@ u
         IN  Outcome(v, Ok(201, [kind |-> "user", user |-> UserResponse(v, id, MaxId)]))
    ELSE Outcome(u, HTTPException(500, ErrorCreating))

\* mutation: the existence test of the parent is dropped
parent_missing_never(u, parent_id) == FALSE

\* `not parent` after parent = db.query(User).filter(User.id == parent_id).first()
parent_missing(u, parent_id) == parent_id \notin DOMAIN u

\* mutation: the type test of the parent is dropped
parent_not_parent_never(u, parent_id) == FALSE

\* parent.user_type != 'parent'
parent_not_parent(u, parent_id) ==
    parent_id \in DOMAIN u /\ u[parent_id].user_type # "parent"

\* POST /users
create_user(u, p) ==
    IF ParentCreate(p)
    THEN AddAndCommit(u, NewUser(ParentCreate_model_dump(p)))
    ELSE IF ChildCreate(p)
    THEN LET user_dict == ChildCreate_model_dump(p)
         IN  IF parent_missing(u, user_dict.parent_id)
             THEN Outcome(u, HTTPException(400, ParentNotFound))
             ELSE IF parent_not_parent(u, user_dict.parent_id)
             THEN Outcome(u, HTTPException(400, NotAParent))
             ELSE AddAndCommit(u, NewUser(user_dict))
    ELSE Outcome(u, HTTPException(422, RequestValidationError))

\* mutation: only street is tested
FirstAddressField_street_only(keys, k) ==
    IF "street" \in keys THEN "street" ELSE Absent

\* the address fields of update_dict, in the order the handler tests them
RECURSIVE FirstAddressField(_, _)
FirstAddressField(keys, k) ==
    IF k > Len(address_fields) THEN Absent
    ELSE IF address_fields[k] \in keys THEN address_fields[k]
    ELSE FirstAddressField(keys, k + 1)

\* mutation: the setattr loop is lost
SetAttrs_none(row, d, keys) == row

\* mutation: the loop skips parent_id
SetAttrs_keep_parent_id(row, d, keys) ==
    [f \in DOMAIN row |-> IF f \in keys \ {"parent_id"} THEN d[f] ELSE row[f]]

\* for field, value in update_dict.items(): setattr(existing_user, field, value)
SetAttrs(row, d, keys) ==
    [f \in DOMAIN row |-> IF f \in keys THEN d[f] ELSE row[f]]

\* setattr loop; db.commit(); db.refresh(existing_user); return existing_user
ApplyAndCommit(u, user_id, d, keys) ==
    LET row == SetAttrs(u[user_id], d, keys)
    IN  IF Flushes(row)
        THEN LET v == [u EXCEPT ![user_id] = row]
             IN  Outcome(v, Ok(200, [kind |-> "user",
                                     user |-> UserResponse(v, user_id, MaxId)]))
        ELSE Outcome(u, HTTPException(500, ErrorUpdating))

\* mutation: a parent may be given a parent_id
parent_id_given_never(d, keys) == FALSE

\* 'parent_id' in update_dict and update_dict['parent_id'] is not None
parent_id_given(d, keys) == "parent_id" \in keys /\ d.parent_id # NullId

\* mutation: the existence test of the new parent is dropped
new_parent_missing_never(u, d, keys) == FALSE

\* `not new_parent` after the lookup of update_dict['parent_id']
new_parent_missing(u, d, keys) ==
    "parent_id" \in keys /\ d.parent_id \notin DOMAIN u

\* mutation: the type test of the new parent is dropped
new_parent_not_parent_never(u, d, keys) == FALSE

\* new_parent.user_type != 'parent'
new_parent_not_parent(u, d, keys) ==
    "parent_id" \in keys /\ d.parent_id \in DOMAIN u
                         /\ u[d.parent_id].user_type # "parent"

\* mutation: a body without fields is applied like any other
no_update_dict_never(keys) == FALSE

\* if not update_dict
no_update_dict(keys) == keys = {}

\* mutation: the rules per user type are gone, in the handler and in the table:
\* every named field is written
update_user_any_field(u, user_id, p) ==
    IF ~UserUpdate(p)
    THEN Outcome(u, HTTPException(422, RequestValidationError))
    ELSE IF user_id \notin DOMAIN u
    THEN Outcome(u, HTTPException(404, UserNotFound))
    ELSE
      LET d    == UserUpdate_model_dump(p)
          keys == update_dict(d)
      IN  IF no_update_dict(keys)
          THEN Outcome(u, HTTPException(400, NoValidFields))
          ELSE LET v == [u EXCEPT ![user_id] = SetAttrs(u[user_id], d, keys)]
               IN  Outcome(v, Ok(200, [kind |-> "user",
                                       user |-> UserResponse(v, user_id, MaxId)]))

\* PUT /users/{user_id}
update_user(u, user_id, p) ==
    IF ~UserUpdate(p)
    THEN Outcome(u, HTTPException(422, RequestValidationError))
    ELSE IF user_id \notin DOMAIN u
    THEN Outcome(u, HTTPException(404, UserNotFound))
    ELSE
      LET d    == UserUpdate_model_dump(p)
          keys == update_dict(d)
          user_type == u[user_id].user_type
      IN  IF no_update_dict(keys)
          THEN Outcome(u, HTTPException(400, NoValidFields))
          ELSE IF user_type = "parent"
          THEN IF parent_id_given(d, keys)
               THEN Outcome(u, HTTPException(400, ParentHasParentId))
               ELSE ApplyAndCommit(u, user_id, d, keys)
          ELSE IF user_type = "child"
          THEN IF FirstAddressField(keys, 1) # Absent
               THEN Outcome(u, HTTPException(400,
                                ChildHasAddress(FirstAddressField(keys, 1))))
               ELSE IF new_parent_missing(u, d, keys)
               THEN Outcome(u, HTTPException(400, ParentNotFound))
               ELSE IF new_parent_not_parent(u, d, keys)
               THEN Outcome(u, HTTPException(400, NotAParent))
               ELSE ApplyAndCommit(u, user_id, d, keys)
          ELSE ApplyAndCommit(u, user_id, d, keys)

\* mutation: no cascade, only the row itself is deleted
Cascade_none(u, S) == S

\* cascade="all, delete-orphan" on User.children: the rows db.delete() marks,
\* the row itself and, level by level, the rows whose parent_id is marked
RECURSIVE Cascade(_, _)
Cascade(u, S) ==
    LET T == S \cup {c \in DOMAIN u : u[c].parent_id \in S}
    IN  IF T = S THEN S ELSE Cascade(u, T)

\* mutation: the target is counted with its children
count_children_and_self(u, user_id) == Cardinality(ChildIds(u, user_id)) + 1

\* db.query(User).filter(User.parent_id == user_id).count()
count_children(u, user_id) == Cardinality(ChildIds(u, user_id))

\* DELETE /users/{user_id}
delete_user(u, user_id) ==
    IF user_id \notin DOMAIN u
    THEN Outcome(u, HTTPException(404, UserNotFound))
    ELSE
      LET user_type == u[user_id].user_type
          children_count ==
              IF user_type = "parent" THEN count_children(u, user_id) ELSE 0
      IN  Outcome(Remove(u, Cascade(u, {user_id})),
                  Ok(200, [kind |-> "deleted",
                           deleted_user_id |-> user_id,
                           deleted_user_type |-> user_type,
                           children_deleted |->
                               IF user_type = "parent" THEN children_count ELSE 0]))

\* mutation: the flag is taken as given whatever the query string says
ConfirmFlag_always(c) == TRUE

\* confirm: bool = False, from the query string
ConfirmFlag(c) == c = "true"

\* mutation: the filter on user_type is lost, every row is counted
count_by_type_all(u, t) == Cardinality(DOMAIN u)

\* db.query(User).filter(User.user_type == t).count()
count_by_type(u, t) == Cardinality({i \in DOMAIN u : u[i].user_type = t})

\* mutation: an empty table is deleted like any other
no_users_never(total_users) == FALSE

\* if total_users == 0
no_users(total_users) == total_users = 0

\* DELETE /users
delete_all_users(u, confirm) ==
    IF ~ConfirmFlag(confirm)
    THEN Outcome(u, HTTPException(400, ConfirmRequired))
    ELSE
      LET total_users  == Cardinality(DOMAIN u)
          parent_count == count_by_type(u, "parent")
          child_count  == count_by_type(u, "child")
      IN  IF no_users(total_users)
          THEN Outcome(u, Ok(200, [kind |-> "message",
                                   message |-> "No users found to delete"]))
          ELSE Outcome(Remove(u, DOMAIN u),
                       Ok(200, [kind |-> "bulk_deleted",
                                total_deleted |-> total_users,
                                parents_deleted |-> parent_count,
                                children_deleted |-> child_count]))

\* mutation: an id that is not stored is answered with 200 and an empty body
get_user_no_404(u, user_id) ==
    IF user_id \notin DOMAIN u
    THEN Outcome(u, Ok(200, NoBody))
    ELSE Outcome(u, Ok(200, [kind |-> "user", user |-> UserResponse(u, user_id, MaxId)]))

\* GET /users/{user_id}
get_user(u, user_id) ==
    IF user_id \notin DOMAIN u
    THEN Outcome(u, HTTPException(404, UserNotFound))
    ELSE Outcome(u, Ok(200, [kind |-> "user", user |-> UserResponse(u, user_id, MaxId)]))

\* mutation: the children are returned under their parents only
get_all_users_parents_only(u) ==
    LET ids == SortedIds({i \in DOMAIN u : u[i].user_type = "parent"})
    IN  Outcome(u, Ok(200, [kind |-> "users",
                            users |-> [k \in 1 .. Len(ids) |->
                                          UserResponse(u, ids[k], MaxId)]]))

\* GET /users
get_all_users(u) ==
    LET ids == SortedIds(DOMAIN u)
    IN  Outcome(u, Ok(200, [kind |-> "users",
                            users |-> [k \in 1 .. Len(ids) |->
                                          UserResponse(u, ids[k], MaxId)]]))

----------------------------------------------------------------------------
(* Requests *)

PayloadKeys ==
    {"user_type", "first_name", "last_name", "street", "city", "state",
     "zip_code", "parent_id", "children"}

\* the values a creation body may give a key
CreateValues(f) ==
    CASE f = "user_type" -> {Absent, Null, "parent", "child", "other"}
      [] f = "first_name" -> {Absent, Null} \cup FirstNames
      [] f = "last_name" -> {Absent, Null} \cup LastNames
      [] f = "street" -> {Absent, Null} \cup Streets
      [] f = "city" -> {Absent, Null} \cup Cities
      [] f = "state" -> {Absent, Null} \cup States
      [] f = "zip_code" -> {Absent, Null} \cup ZipCodes
      [] f = "parent_id" -> {AbsentId, NullId} \cup ReqIds
      [] OTHER -> {Absent, "[]"}

\* the values an update body may give a key
UpdateValues(f) ==
    CASE f = "user_type" -> {"parent", "child"}
      [] f = "first_name" -> {Null, "a"}
      [] f = "last_name" -> {Null, "b"}
      [] f = "street" -> {Null, "s"}
      [] f = "city" -> {Null, "c"}
      [] f = "state" -> {Null, "t"}
      [] f = "zip_code" -> {Null, "z"}
      [] f = "parent_id" -> {NullId} \cup ReqIds
      [] OTHER -> {"[]"}

\* the bodies that differ from b in at most one key
VaryCreate(b) ==
    {b} \cup UNION {{[b EXCEPT ![f] = v] : v \in CreateValues(f)} : f \in PayloadKeys}

VaryUpdate(b) ==
    {b} \cup UNION {{[b EXCEPT ![f] = v] : v \in UpdateValues(f)} : f \in PayloadKeys}

ParentBody == Payload("parent", "a", "b", "s", "c", "t", "z", AbsentId, Absent)
ChildBody(pid) ==
    Payload("child", "a", "b", Absent, Absent, Absent, Absent, pid, Absent)

\* a well-formed parent or child body, or one that is one key away from it
CreatePayloads ==
    VaryCreate(ParentBody) \cup UNION {VaryCreate(ChildBody(pid)) : pid \in ReqIds}

\* update bodies naming no key, one key or two keys
UpdatePayloads == UNION {VaryUpdate(p) : p \in VaryUpdate(NoPayload)}

Request(op, user_id, payload, confirm) ==
    [op |-> op, user_id |-> user_id, payload |-> payload, confirm |-> confirm]

NoRequest == Request("none", 0, NoPayload, Absent)

Requests ==
    {Request("create", 0, p, Absent) : p \in CreatePayloads}
    \cup {Request("update", id, p, Absent) : id \in ReqIds, p \in UpdatePayloads}
    \cup {Request("delete", id, NoPayload, Absent) : id \in ReqIds}
    \cup {Request("delete_all", 0, NoPayload, c) : c \in {Absent, "false", "true"}}
    \cup {Request("get", id, NoPayload, Absent) : id \in ReqIds}
    \cup {Request("get_all", 0, NoPayload, Absent)}

----------------------------------------------------------------------------
(* One request at a time *)

Sess == 1 .. NSessions

\* a session that get_db has not handed to a request
IdleSession ==
    [pc |-> "idle", request |-> NoRequest, user_type |-> Absent,
     children_count |-> 0, marked |-> {}, read |-> "none", seen |-> <<>>,
     response |-> NoResponse]

Init ==
    /\ users = <<>>
    /\ pc = "idle"
    /\ request = NoRequest
    /\ response = NoResponse
    /\ sessions = [s \in Sess |-> IdleSession]

\* get_db opens a session for the next request; the store holds ids up to MaxId
Receive(R) ==
    /\ pc = "idle"
    /\ \E r \in R :
          /\ r.op = "create" => DOMAIN create_user(users, r.payload).users \subseteq Ids
          /\ request' = r
    /\ pc' = "pending"
    /\ UNCHANGED <<users, response, sessions>>

Handle(out) ==
    /\ users' = out.users
    /\ response' = out.response
    /\ pc' = "done"
    /\ UNCHANGED <<request, sessions>>

POST_users ==
    /\ pc = "pending" /\ request.op = "create"
    /\ Handle(create_user(users, request.payload))

PUT_users_id ==
    /\ pc = "pending" /\ request.op = "update"
    /\ Handle(update_user(users, request.user_id, request.payload))

DELETE_users_id ==
    /\ pc = "pending" /\ request.op = "delete"
    /\ Handle(delete_user(users, request.user_id))

DELETE_users ==
    /\ pc = "pending" /\ request.op = "delete_all"
    /\ Handle(delete_all_users(users, request.confirm))

GET_users_id ==
    /\ pc = "pending" /\ request.op = "get"
    /\ Handle(get_user(users, request.user_id))

GET_users ==
    /\ pc = "pending" /\ request.op = "get_all"
    /\ Handle(get_all_users(users))

\* the response is sent and get_db closes the session
Respond ==
    /\ pc = "done"
    /\ pc' = "idle"
    /\ request' = NoRequest
    /\ response' = NoResponse
    /\ UNCHANGED <<users, sessions>>

Handlers ==
    \/ POST_users
    \/ PUT_users_id
    \/ DELETE_users_id
    \/ DELETE_users
    \/ GET_users_id
    \/ GET_users

Next ==
    \/ Receive(Requests)
    \/ Handlers
    \/ Respond

Spec == Init /\ [][Next]_vars

----------------------------------------------------------------------------
(* Sessions that overlap: each statement of a handler is a step, and every   *)
(* statement reads or writes the committed table.                            *)

\* the tables a run of creations leaves behind
RECURSIVE RunCreates(_, _)
RunCreates(u, bodies) ==
    IF bodies = <<>> THEN u
    ELSE RunCreates(create_user(u, Head(bodies)).users, Tail(bodies))

SeedBodies == {ParentBody} \cup {ChildBody(pid) : pid \in 1 .. MaxSeed}

SeededStores ==
    {RunCreates(<<>>, b) : b \in UNION {[1 .. n -> SeedBodies] : n \in 0 .. MaxSeed}}

InitSessions ==
    /\ users \in SeededStores
    /\ pc = "idle"
    /\ request = NoRequest
    /\ response = NoResponse
    /\ sessions = [s \in Sess |-> IdleSession]

Restrict(u, D) == [i \in DOMAIN u \cap D |-> u[i]]

\* a session between the first statement of delete_user and its response
InDelete(s) ==
    sessions[s].request.op = "delete" /\ sessions[s].pc \notin {"idle", "done"}

\* the request is routed to its handler with a session of its own; one delete
\* runs at a time
Begin(s, R) ==
    /\ sessions[s].pc = "idle"
    /\ \E r \in R :
          /\ r.op = "delete" => \A t \in Sess \ {s} : ~InDelete(t)
          /\ sessions' = [sessions EXCEPT ![s] =
                             [IdleSession EXCEPT !.pc = "start", !.request = r]]
    /\ UNCHANGED <<users, pc, request, response>>

At(s, op, label) ==
    sessions[s].pc = label /\ sessions[s].request.op = op

\* user_to_delete = db.query(User).filter(User.id == user_id).first()
delete_user_query(s) ==
    LET user_id == sessions[s].request.user_id IN
    /\ At(s, "delete", "start")
    /\ sessions' = [sessions EXCEPT ![s] =
          IF user_id \notin DOMAIN users
          THEN [@ EXCEPT !.pc = "done",
                         !.response = HTTPException(404, UserNotFound)]
          ELSE [@ EXCEPT !.pc = "count",
                         !.user_type = users[user_id].user_type]]
    /\ UNCHANGED <<users, pc, request, response>>

\* children_count = db.query(User).filter(User.parent_id == user_id).count()
delete_user_count(s) ==
    LET user_id == sessions[s].request.user_id IN
    /\ At(s, "delete", "count")
    /\ sessions' = [sessions EXCEPT ![s] =
          [@ EXCEPT !.pc = "delete",
                    !.children_count =
                        IF sessions[s].user_type = "parent"
                        THEN count_children(users, user_id) ELSE 0]]
    /\ UNCHANGED <<users, pc, request, response>>

\* db.delete(user_to_delete): the cascade loads the children and marks them
delete_user_delete(s) ==
    LET user_id == sessions[s].request.user_id IN
    /\ At(s, "delete", "delete")
    /\ sessions' = [sessions EXCEPT ![s] =
          [@ EXCEPT !.pc = "commit", !.marked = Cascade(users, {user_id})]]
    /\ UNCHANGED <<users, pc, request, response>>

\* mutation: only the row of user_id is deleted in this transaction
CommitDelete_target_only(u, marked, user_id) == Remove(u, {user_id})

\* db.commit(): the DELETE of every marked row, in one transaction
CommitDelete(u, marked, user_id) == Remove(u, marked)

\* db.commit() and the response of delete_user
delete_user_commit(s) ==
    LET user_id == sessions[s].request.user_id
        user_type == sessions[s].user_type
    IN
    /\ At(s, "delete", "commit")
    /\ users' = CommitDelete(users, sessions[s].marked, user_id)
    /\ sessions' = [sessions EXCEPT ![s] =
          [@ EXCEPT !.pc = "done",
                    !.response =
                        Ok(200, [kind |-> "deleted",
                                 deleted_user_id |-> user_id,
                                 deleted_user_type |-> user_type,
                                 children_deleted |->
                                     IF user_type = "parent"
                                     THEN sessions[s].children_count ELSE 0])]]
    /\ UNCHANGED <<pc, request, response>>

\* UserResponse of a row the session holds in `cache`, each children list
\* loaded from the committed table u when it is serialized
RECURSIVE LazyUserResponse(_, _, _, _)
LazyUserResponse(cache, u, id, depth) ==
    LET row == IF id \in DOMAIN cache THEN cache[id] ELSE u[id] IN
    [id |-> id,
     first_name |-> row.first_name, last_name |-> row.last_name,
     user_type |-> row.user_type,
     street |-> row.street, city |-> row.city,
     state |-> row.state, zip_code |-> row.zip_code,
     parent_id |-> row.parent_id,
     children |->
        IF depth = 0 THEN <<>>
        ELSE LET ids == SortedIds(ChildIds(u, id))
             IN  [k \in 1 .. Len(ids) |->
                     LazyUserResponse(cache, u, ids[k], depth - 1)]]

\* user = db.query(User).filter(User.id == user_id).first()
get_user_query(s) ==
    LET user_id == sessions[s].request.user_id IN
    /\ At(s, "get", "start")
    /\ sessions' = [sessions EXCEPT ![s] =
          IF user_id \notin DOMAIN users
          THEN [@ EXCEPT !.pc = "done", !.read = "row", !.seen = <<>>,
                         !.response = HTTPException(404, UserNotFound)]
          ELSE [@ EXCEPT !.pc = "serialize", !.read = "row",
                         !.seen = Restrict(users, {user_id})]]
    /\ UNCHANGED <<users, pc, request, response>>

\* return user: the response model loads user.children
get_user_serialize(s) ==
    LET user_id == sessions[s].request.user_id IN
    /\ At(s, "get", "serialize")
    /\ sessions' = [sessions EXCEPT ![s] =
          [@ EXCEPT !.pc = "done",
                    !.response =
                        Ok(200, [kind |-> "user",
                                 user |-> LazyUserResponse(sessions[s].seen, users,
                                                           user_id, MaxId)])]]
    /\ UNCHANGED <<users, pc, request, response>>

\* users = db.query(User).all()
get_all_users_query(s) ==
    /\ At(s, "get_all", "start")
    /\ sessions' = [sessions EXCEPT ![s] =
          [@ EXCEPT !.pc = "serialize", !.read = "table", !.seen = users]]
    /\ UNCHANGED <<users, pc, request, response>>

\* return users: the response model loads the children of every user
get_all_users_serialize(s) ==
    LET ids == SortedIds(DOMAIN sessions[s].seen) IN
    /\ At(s, "get_all", "serialize")
    /\ sessions' = [sessions EXCEPT ![s] =
          [@ EXCEPT !.pc = "done",
                    !.response =
                        Ok(200, [kind |-> "users",
                                 users |-> [k \in 1 .. Len(ids) |->
                                     LazyUserResponse(sessions[s].seen, users,
                                                      ids[k], MaxId)]])]]
    /\ UNCHANGED <<users, pc, request, response>>

\* the response is sent and get_db closes the session
Finish(s) ==
    /\ sessions[s].pc = "done"
    /\ sessions' = [sessions EXCEPT ![s] = IdleSession]
    /\ UNCHANGED <<users, pc, request, response>>

\* ids a request to overlapping sessions may name: the seeded ids and one more
SeedIds == 1 .. (MaxSeed + 1)

\* deletes and fetches
DeleteAndReadRequests ==
    {Request("delete", id, NoPayload, Absent) : id \in SeedIds}
    \cup {Request("get", id, NoPayload, Absent) : id \in SeedIds}
    \cup {Request("get_all", 0, NoPayload, Absent)}

NextReaders ==
    \E s \in Sess :
        \/ Begin(s, DeleteAndReadRequests)
        \/ delete_user_query(s)
        \/ delete_user_count(s)
        \/ delete_user_delete(s)
        \/ delete_user_commit(s)
        \/ get_user_query(s)
        \/ get_user_serialize(s)
        \/ get_all_users_query(s)
        \/ get_all_users_serialize(s)
        \/ Finish(s)

\* one delete at a time, overlapping with fetches
SpecReaders == InitSessions /\ [][NextReaders]_vars

----------------------------------------------------------------------------
(* Creations and updates that overlap with a delete: the check of the parent *)
(* and the commit are steps of their own.                                    *)

\* mutation: the connection runs with PRAGMA foreign_keys=ON
ForeignKeys_enforced(u, row) ==
    row.parent_id = NullId \/ row.parent_id \in DOMAIN u

\* ForeignKey('users.id') on an engine that sets no PRAGMA foreign_keys:
\* SQLite does not look the parent_id up
ForeignKeys(u, row) == TRUE

\* flush of an INSERT or UPDATE of row into the committed table u
FlushesIn(u, row) == Flushes(row) /\ ForeignKeys(u, row)

\* the sessions whose response is waiting to be sent
Answered == {t \in Sess : sessions[t].pc = "done"}

\* no response is waiting to be sent
NoneDone == Answered = {}

\* the sessions that are open
Open == {t \in Sess : sessions[t].pc # "idle"}

\* the sessions between the first statement of a handler of op and its response
InFlight(op) == {t \in Sess : sessions[t].request.op = op
                              /\ sessions[t].pc \notin {"idle", "done"}}

\* a request gets the first session that is free. Two sessions are open at a
\* time, and they do not run two deletes, two creations or two updates; the
\* ids of the table stay within SeedIds
BeginWrite(s, R) ==
    /\ NoneDone
    /\ {t \in Sess \ Open : t < s} = {}
    /\ {t \in Open : Open # {t}} = {}
    /\ Begin(s, {r \in R : InFlight(r.op) = {}})
    /\ NewId(users) > MaxSeed + 1 => sessions'[s].request.op # "create"

\* parent = db.query(User).filter(User.id == user_dict['parent_id']).first()
\* and the two tests of it; a parent body has nothing to look up
create_user_check(s) ==
    LET p == sessions[s].request.payload IN
    /\ At(s, "create", "start")
    /\ sessions' = [sessions EXCEPT ![s] =
          IF ChildCreate(p) /\ parent_missing(users, p.parent_id)
          THEN [@ EXCEPT !.pc = "done",
                         !.response = HTTPException(400, ParentNotFound)]
          ELSE IF ChildCreate(p) /\ parent_not_parent(users, p.parent_id)
          THEN [@ EXCEPT !.pc = "done",
                         !.response = HTTPException(400, NotAParent)]
          ELSE [@ EXCEPT !.pc = "commit"]]
    /\ UNCHANGED <<users, pc, request, response>>

\* db.add(new_user); db.commit(); db.refresh(new_user); return new_user
create_user_commit(s) ==
    LET p   == sessions[s].request.payload
        row == NewUser(IF ChildCreate(p) THEN ChildCreate_model_dump(p)
                       ELSE ParentCreate_model_dump(p))
        id  == NewId(users)
        v   == (id :> row) @@ users
    IN
    /\ At(s, "create", "commit")
    /\ users' = IF FlushesIn(users, row) THEN v ELSE users
    /\ sessions' = [sessions EXCEPT ![s] =
          [@ EXCEPT !.pc = "done",
                    !.response =
                        IF FlushesIn(users, row)
                        THEN Ok(201, [kind |-> "user",
                                      user |-> UserResponse(v, id, MaxId)])
                        ELSE HTTPException(500, ErrorCreating)]]
    /\ UNCHANGED <<pc, request, response>>

\* existing_user = db.query(User).filter(User.id == user_id).first()
update_user_query(s) ==
    LET user_id == sessions[s].request.user_id IN
    /\ At(s, "update", "start")
    /\ sessions' = [sessions EXCEPT ![s] =
          IF user_id \notin DOMAIN users
          THEN [@ EXCEPT !.pc = "done",
                         !.response = HTTPException(404, UserNotFound)]
          ELSE [@ EXCEPT !.pc = "check", !.read = "row",
                         !.seen = Restrict(users, {user_id}),
                         !.user_type = users[user_id].user_type]]
    /\ UNCHANGED <<users, pc, request, response>>

\* the rules of update_user on the row the session holds, and the lookup of
\* the new parent in the committed table
update_user_check(s) ==
    LET d    == UserUpdate_model_dump(sessions[s].request.payload)
        keys == update_dict(d)
        user_type == sessions[s].user_type
        refused ==
            IF no_update_dict(keys) THEN NoValidFields
            ELSE IF user_type = "parent"
            THEN IF parent_id_given(d, keys) THEN ParentHasParentId ELSE Absent
            ELSE IF FirstAddressField(keys, 1) # Absent
            THEN ChildHasAddress(FirstAddressField(keys, 1))
            ELSE IF new_parent_missing(users, d, keys) THEN ParentNotFound
            ELSE IF new_parent_not_parent(users, d, keys) THEN NotAParent
            ELSE Absent
    IN
    /\ At(s, "update", "check")
    /\ sessions' = [sessions EXCEPT ![s] =
          IF refused # Absent
          THEN [@ EXCEPT !.pc = "done", !.response = HTTPException(400, refused)]
          ELSE [@ EXCEPT !.pc = "commit"]]
    /\ UNCHANGED <<users, pc, request, response>>

\* the fields the setattr loop changed on the row the session holds
Changed(row, d, keys) == {f \in keys : d[f] # row[f]}

\* setattr loop; db.commit(): UPDATE users SET the changed fields WHERE id =
\* user_id, which fails when no row has the id; db.refresh(existing_user)
update_user_commit(s) ==
    LET user_id == sessions[s].request.user_id
        d       == UserUpdate_model_dump(sessions[s].request.payload)
        changed == Changed(sessions[s].seen[user_id], d, update_dict(d))
        stored  == user_id \in DOMAIN users
        row     == SetAttrs(users[user_id], d, changed)
        written == stored /\ (changed = {} \/ FlushesIn(users, row))
        v       == [users EXCEPT ![user_id] = row]
    IN
    /\ At(s, "update", "commit")
    /\ users' = IF written THEN v ELSE users
    /\ sessions' = [sessions EXCEPT ![s] =
          [@ EXCEPT !.pc = "done",
                    !.response =
                        IF written
                        THEN Ok(200, [kind |-> "user",
                                      user |-> UserResponse(v, user_id, MaxId)])
                        ELSE HTTPException(500, ErrorUpdating)]]
    /\ UNCHANGED <<pc, request, response>>

\* an update body that names parent_id only
ReassignBody(pid) == [NoPayload EXCEPT !.parent_id = pid]

\* deletes, creations of parents and of children, and updates that name
\* another user as the parent
WriteRequests ==
    {Request("delete", id, NoPayload, Absent) : id \in SeedIds}
    \cup {Request("create", 0, ParentBody, Absent)}
    \cup {Request("create", 0, ChildBody(pid), Absent) : pid \in SeedIds}
    \cup UNION {{Request("update", id, ReassignBody(pid), Absent) :
                    pid \in SeedIds \ {id}} : id \in SeedIds}

\* a response is sent before any other session takes its next step: sending
\* it reads and writes nothing the other sessions see
NextWriters ==
    \E s \in Sess :
        \/ BeginWrite(s, WriteRequests)
        \/ NoneDone /\ create_user_check(s)
        \/ NoneDone /\ create_user_commit(s)
        \/ NoneDone /\ update_user_query(s)
        \/ NoneDone /\ update_user_check(s)
        \/ NoneDone /\ update_user_commit(s)
        \/ NoneDone /\ delete_user_query(s)
        \/ NoneDone /\ delete_user_count(s)
        \/ NoneDone /\ delete_user_delete(s)
        \/ NoneDone /\ delete_user_commit(s)
        \/ Finish(s)

\* a delete, a creation and an update, two of them overlapping at a time
SpecWriters == InitSessions /\ [][NextWriters]_vars

----------------------------------------------------------------------------
(* Updates that give fields new values, one at a time, on a seeded table *)

\* the values an update body may give a key: None, or a value no creation of
\* SeedBodies stores
FieldValues(f) ==
    CASE f = "first_name" -> {Null, "e"}
      [] f = "last_name" -> {Null, ""}
      [] f = "street" -> {Null, "u"}
      [] f = "city" -> {Null, "c"}
      [] f = "state" -> {Null, "t"}
      [] f = "zip_code" -> {Null, "z"}
      [] OTHER -> {NullId} \cup SeedIds

VaryFields(b) ==
    {b} \cup UNION {{[b EXCEPT ![f] = v] : v \in FieldValues(f)} : f \in UpdateKeys}

\* update bodies naming no field, one field or two fields
FieldPayloads == UNION {VaryFields(p) : p \in VaryFields(NoPayload)}

FieldRequests ==
    {Request("update", id, p, Absent) : id \in SeedIds, p \in FieldPayloads}

NextFields ==
    \/ Receive(FieldRequests)
    \/ PUT_users_id
    \/ Respond

SpecFields == InitSessions /\ [][NextFields]_vars

----------------------------------------------------------------------------
(* Properties of the table under one-at-a-time requests *)

Stored == DOMAIN users
Parents == {i \in Stored : users[i].user_type = "parent"}
Children == {i \in Stored : users[i].user_type = "child"}

Pending(op) == pc = "pending" /\ request.op = op
Done(op) == pc = "done" /\ request.op = op

\* C1: every stored user whose parent_id is set references a stored user of
\* type parent
C1_ParentIdReferencesParent ==
    \A i \in Stored :
        users[i].parent_id # NullId =>
            /\ users[i].parent_id \in Stored
            /\ users[users[i].parent_id].user_type = "parent"

\* a child was just moved to another parent while a second child is stored
C1_Witness ==
    /\ Done("update") /\ response.status = 200
    /\ request.user_id \in Children
    /\ request.payload.parent_id \in Parents
    /\ users[request.user_id].parent_id = request.payload.parent_id
    /\ Cardinality(Children) >= 2

\* C2: a stored user has parent_id null exactly when its user_type is parent
C2_ParentIdNullIffParent ==
    \A i \in Stored :
        (users[i].parent_id = NullId) <=> (users[i].user_type = "parent")

\* a parent was just updated while parents and children are stored
C2_Witness ==
    /\ Done("update") /\ response.status = 200
    /\ request.user_id \in Parents
    /\ Children # {}

\* C3: a stored child has no address: street, city, state, zip_code all null
C3_ChildHasNoAddress ==
    \A i \in Children :
        \A f \in {"street", "city", "state", "zip_code"} : users[i][f] = Null

\* a child was just updated
C3_Witness ==
    /\ Done("update") /\ response.status = 200
    /\ request.user_id \in Children
    /\ request.payload.first_name = "a"

\* C4: no step changes the user_type of a user that stays stored, and an
\* update body naming user_type is rejected with 422 and changes nothing
C4_UserTypeImmutable ==
    [][/\ \A i \in DOMAIN users \cap DOMAIN users' :
             users'[i].user_type = users[i].user_type
       /\ (Pending("update") /\ request.payload.user_type # Absent) =>
             (response'.status = 422 /\ users' = users)]_vars

\* an update naming the other user_type for a stored user was rejected
C4_Witness ==
    /\ Done("update") /\ response.status = 422
    /\ request.user_id \in Stored
    /\ request.payload.user_type \notin {Absent, users[request.user_id].user_type}

\* C5: a successful delete of X removes X and, when X is a parent, the users
\* whose parent_id is X, and leaves every other stored user as it was
C5_DeleteRemovesExactlyFamily ==
    [][(Pending("delete") /\ response'.status = 200) =>
          LET X == request.user_id
              gone == {X} \cup (IF users[X].user_type = "parent"
                                THEN ChildIds(users, X) ELSE {})
          IN  /\ X \in DOMAIN users
              /\ DOMAIN users' = DOMAIN users \ gone
              /\ \A i \in DOMAIN users' : users'[i] = users[i]]_vars

\* a parent with two children was deleted and another user is still stored
C5_Witness ==
    /\ Done("delete") /\ response.status = 200
    /\ response.body.deleted_user_type = "parent"
    /\ response.body.children_deleted = 2
    /\ Stored # {}

\* C7: creating a child whose parent_id matches no stored user fails with
\* 400 "... not found" and leaves the table as it was
C7_CreateChildUnknownParent ==
    [][(/\ Pending("create")
        /\ ChildCreate(request.payload)
        /\ request.payload.parent_id \notin DOMAIN users) =>
          (/\ response' = HTTPException(400, ParentNotFound)
           /\ users' = users)]_vars

\* such a creation was refused on a table that holds users
C7_Witness ==
    /\ Done("create")
    /\ ChildCreate(request.payload)
    /\ request.payload.parent_id \notin Stored
    /\ response.status = 400
    /\ Stored # {}

\* C8: creating a child whose parent_id names a stored child fails with
\* 400 "parent_id must reference ..." and leaves the table as it was
C8_CreateChildUnderChild ==
    [][(/\ Pending("create")
        /\ ChildCreate(request.payload)
        /\ request.payload.parent_id \in DOMAIN users
        /\ users[request.payload.parent_id].user_type = "child") =>
          (/\ response' = HTTPException(400, NotAParent)
           /\ users' = users)]_vars

\* such a creation was refused
C8_Witness ==
    /\ Done("create")
    /\ ChildCreate(request.payload)
    /\ request.payload.parent_id \in Children
    /\ response.detail = NotAParent

\* C9: updating a parent with a non-null parent_id fails with 400 "Parent
\* users cannot have a parent_id", whatever else the body names and whether or
\* not the id is stored, and leaves the table as it was
C9_UpdateParentWithParentId ==
    [][(/\ Pending("update")
        /\ UserUpdate(request.payload)
        /\ request.user_id \in DOMAIN users
        /\ users[request.user_id].user_type = "parent"
        /\ request.payload.parent_id \notin {AbsentId, NullId}) =>
          (/\ response' = HTTPException(400, ParentHasParentId)
           /\ users' = users)]_vars

\* refused for a parent_id that is not stored, in a body that names another
\* field as well
C9_Witness ==
    /\ Done("update")
    /\ request.user_id \in Parents
    /\ request.payload.parent_id \in ReqIds \ Stored
    /\ request.payload.first_name = "a"
    /\ response.detail = ParentHasParentId

AddressKeys == {"street", "city", "state", "zip_code"}

----------------------------------------------------------------------------
(* Updates without fields, and bulk deletes *)

\* C11: an update of a stored user with a body that names no field fails with
\* 400 "No valid fields provided for update" and leaves the table as it was
C11_EmptyUpdate ==
    [][(/\ Pending("update")
        /\ request.payload = NoPayload
        /\ request.user_id \in DOMAIN users) =>
          (/\ response' = HTTPException(400, NoValidFields)
           /\ users' = users)]_vars

\* refused for a stored child
C11_Witness ==
    /\ Done("update")
    /\ request.payload = NoPayload
    /\ request.user_id \in Children
    /\ response = HTTPException(400, NoValidFields)

\* C12: a bulk delete whose confirm flag is absent or false deletes nothing
\* and fails with 400 "Must set confirm=true to delete all users"
C12_BulkDeleteNeedsConfirm ==
    [][(Pending("delete_all") /\ request.confirm # "true") =>
          (/\ response' = HTTPException(400, ConfirmRequired)
           /\ users' = users)]_vars

\* refused with confirm=false on a table that holds a parent and a child
C12_Witness ==
    /\ Done("delete_all")
    /\ request.confirm = "false"
    /\ response = HTTPException(400, ConfirmRequired)
    /\ Parents # {}
    /\ Children # {}

\* C13: a confirmed bulk delete of a table that is not empty empties it and
\* returns the numbers of users, of parents and of children that were stored,
\* the first being the sum of the other two
C13_BulkDeleteCounts ==
    [][(Pending("delete_all") /\ request.confirm = "true" /\ Stored # {}) =>
          (/\ users' = <<>>
           /\ response'.status = 200
           /\ response'.body = [kind |-> "bulk_deleted",
                                total_deleted |-> Cardinality(Stored),
                                parents_deleted |-> Cardinality(Parents),
                                children_deleted |-> Cardinality(Children)]
           /\ response'.body.total_deleted =
                 response'.body.parents_deleted + response'.body.children_deleted)]_vars

\* two parents and a child were deleted
C13_Witness ==
    /\ Done("delete_all")
    /\ users = <<>>
    /\ response.status = 200
    /\ response.body.kind = "bulk_deleted"
    /\ response.body.parents_deleted = 2
    /\ response.body.children_deleted = 1

\* C14: a confirmed bulk delete returns the message "No users found to
\* delete", without counts, when the table was empty and only then
C14_BulkDeleteOfEmptyTable ==
    [][(Pending("delete_all") /\ request.confirm = "true") =>
          (/\ response'.status = 200
           /\ (response'.body.kind = "message") <=> (Stored = {})
           /\ Stored = {} =>
                 /\ response'.body = [kind |-> "message",
                                      message |-> "No users found to delete"]
                 /\ users' = users)]_vars

\* the message, and no count, was returned for an empty table
C14_Witness ==
    /\ Done("delete_all")
    /\ request.confirm = "true"
    /\ Stored = {}
    /\ response.body.kind = "message"
    /\ "total_deleted" \notin DOMAIN response.body

----------------------------------------------------------------------------
(* Creations *)

\* the rows of u are in v as they were, and v holds the one row id besides
InsertsOne(u, v, id) ==
    /\ id \notin DOMAIN u
    /\ DOMAIN v = DOMAIN u \cup {id}
    /\ \A i \in DOMAIN u : v[i] = u[i]

\* C15: a creation of a parent that succeeds inserts one row and leaves every
\* other row as it was; the parent returned has no parent_id and no children
C15_CreateParent ==
    [][(/\ Pending("create")
        /\ request.payload.user_type = "parent"
        /\ response'.status = 201) =>
          LET created == response'.body.user
          IN  /\ InsertsOne(users, users', created.id)
              /\ users'[created.id].user_type = "parent"
              /\ users'[created.id].parent_id = NullId
              /\ created.user_type = "parent"
              /\ created.parent_id = NullId
              /\ created.children = <<>>]_vars

\* a parent was added to a table that holds a parent with a child
C15_Witness ==
    /\ Done("create")
    /\ request.payload.user_type = "parent"
    /\ response.status = 201
    /\ response.body.user.children = <<>>
    /\ Children # {}
    /\ Cardinality(Parents) >= 2

\* the number of entries of a children list that carry the id c
Listed(children, c) == Cardinality({k \in DOMAIN children : children[k].id = c})

\* a fetch of parent P lists each row whose parent_id is P once
ListsItsChildren(u, P) ==
    LET fetched == get_user(u, P).response
    IN  /\ fetched.status = 200
        /\ \A c \in DOMAIN u :
              Listed(fetched.body.user.children, c) =
                 IF u[c].parent_id = P THEN 1 ELSE 0

\* C16: a child that was created under parent P has no address field set, and
\* a fetch of P lists it once for as long as its row names P as its parent
C16_CreateChild ==
    [][/\ (/\ Pending("create")
            /\ request.payload.user_type = "child"
            /\ response'.status = 201) =>
              LET created == response'.body.user
                  P == request.payload.parent_id
              IN  /\ InsertsOne(users, users', created.id)
                  /\ users'[created.id].parent_id = P
                  /\ \A f \in AddressKeys :
                        users'[created.id][f] = Null /\ created[f] = Null
                  /\ ListsItsChildren(users', P)
       /\ (/\ Pending("get")
            /\ request.user_id \in Parents) =>
              /\ response' = get_user(users, request.user_id).response
              /\ ListsItsChildren(users, request.user_id)]_vars

\* a second child was created under a parent
C16_Witness ==
    /\ Done("create")
    /\ request.payload.user_type = "child"
    /\ response.status = 201
    /\ Cardinality({c \in Children :
                       users[c].parent_id = request.payload.parent_id}) = 2

----------------------------------------------------------------------------
(* Updates that succeed *)

\* the table v is the table u but for the row id, which has field f set to
\* given[f] when f is in named and left as it was when it is not
ChangesExactly(u, v, id, named, given) ==
    /\ id \in DOMAIN u
    /\ DOMAIN v = DOMAIN u
    /\ \A i \in DOMAIN u \ {id} : v[i] = u[i]
    /\ \A f \in DOMAIN u[id] :
          v[id][f] = IF f \in named THEN given[f] ELSE u[id][f]

ChildrenOf(u, P) == get_user(u, P).response.body.user.children

\* C18: an update of a child that names a stored parent P2 as parent_id, and
\* no address, succeeds and stores parent_id = P2; a fetch of P2 then lists the
\* child, a fetch of the former parent does not, and a delete of the former
\* parent leaves the child stored
C18_Reassign ==
    [][(/\ Pending("update")
        /\ UserUpdate(request.payload)
        /\ request.user_id \in Children
        /\ request.payload.parent_id \in Parents
        /\ \A f \in AddressKeys : request.payload[f] \in {Absent, Null}) =>
          LET C   == request.user_id
              P2  == request.payload.parent_id
              old == users[C].parent_id
          IN  /\ response'.status = 200
              /\ response'.body.user.parent_id = P2
              /\ users'[C].parent_id = P2
              /\ Listed(ChildrenOf(users', P2), C) = 1
              /\ old # P2 =>
                    /\ Listed(ChildrenOf(users', old), C) = 0
                    /\ C \in DOMAIN delete_user(users', old).users
                    /\ delete_user(users', old).response.body.children_deleted =
                          Cardinality(ChildIds(users, old)) - 1]_vars

\* a child is stored under a parent that was created after it, and an older
\* parent is still stored
C18_Witness ==
    /\ Done("update")
    /\ response.status = 200
    /\ request.user_id \in Children
    /\ request.payload.parent_id \in Parents
    /\ request.payload.parent_id > request.user_id
    /\ users[request.user_id].parent_id = request.payload.parent_id
    /\ \E P \in Parents : P < request.user_id

\* C19: an update of a child that names as parent_id, with no address, an id
\* that is not stored fails with 400 "... not found", and one that names the
\* id of a stored child, the child itself included, fails with 400 "... is not
\* a parent"; the table, and with it the child's parent_id, stays as it was
C19_ReassignRefused ==
    [][(/\ Pending("update")
        /\ UserUpdate(request.payload)
        /\ request.user_id \in Children
        /\ request.payload.parent_id \notin {AbsentId, NullId}
        /\ request.payload.parent_id \notin Parents
        /\ \A f \in AddressKeys : request.payload[f] \in {Absent, Null}) =>
          (/\ response' =
                 IF request.payload.parent_id \in Children
                 THEN HTTPException(400, NotAParent)
                 ELSE HTTPException(400, ParentNotFound)
           /\ users' = users)]_vars

\* a child was refused as its own parent, in a body that names a first name
\* as well
C19_Witness ==
    /\ Done("update")
    /\ request.user_id \in Children
    /\ request.payload.parent_id = request.user_id
    /\ request.payload.first_name = "a"
    /\ response = HTTPException(400, NotAParent)
    /\ users[request.user_id].parent_id \in Parents

----------------------------------------------------------------------------
(* Ids that are not stored *)

\* C20: a fetch, a delete and an update with a well-formed body of an id that
\* is not stored fail with 404 "User with ID ... not found" and leave the table
\* as it was; an id that leaves the table is not stored, so that a fetch of it
\* fails with 404, until a creation that succeeds returns that id
C20_NotFound ==
    [][/\ (/\ pc = "pending"
            /\ \/ request.op \in {"get", "delete"}
               \/ request.op = "update" /\ UserUpdate(request.payload)
            /\ request.user_id \notin Stored) =>
              (/\ response' = HTTPException(404, UserNotFound)
               /\ users' = users)
       /\ \A i \in Stored \ DOMAIN users' :
              /\ request.op \in {"delete", "delete_all"}
              /\ get_user(users', i).response = HTTPException(404, UserNotFound)
       /\ \A i \in DOMAIN users' \ Stored :
              /\ Pending("create")
              /\ response'.status = 201
              /\ response'.body.user.id = i]_vars

\* a fetch of an id that was stored and deleted, while a later id is stored,
\* was answered with 404
C20_Witness ==
    /\ Done("get")
    /\ request.user_id \notin Stored
    /\ \E j \in Stored : j > request.user_id
    /\ response = HTTPException(404, UserNotFound)

----------------------------------------------------------------------------
(* Delete summaries, fetches and lists, one request at a time *)

\* C21: the summary of a delete that succeeds names the id and the user_type
\* of the target, and its children_deleted is the number of child rows the
\* delete removed: none for a child, all the children of a parent
C21_DeleteSummary ==
    [][(Pending("delete") /\ response'.status = 200) =>
          LET target  == request.user_id
              removed == (Stored \ DOMAIN users') \ {target}
          IN  /\ target \in Stored
              /\ response'.body.deleted_user_id = target
              /\ response'.body.deleted_user_type = users[target].user_type
              /\ response'.body.children_deleted = Cardinality(removed)
              /\ \A c \in removed : users[c].user_type = "child"
              /\ response'.body.children_deleted =
                    IF target \in Children THEN 0
                    ELSE Cardinality({c \in Stored : users[c].parent_id = target})]_vars

\* a parent with two children was deleted while another user stays stored
C21_Witness ==
    /\ Done("delete")
    /\ response.status = 200
    /\ response.body.deleted_user_type = "parent"
    /\ response.body.children_deleted = 2
    /\ Stored # {}

\* the entry e of a response is a stored user, and its children list holds
\* the stored users whose parent_id is its id, each once and no one else
EntryIsLive(e) ==
    /\ e.id \in Stored
    /\ e.user_type = users[e.id].user_type
    /\ e.parent_id = users[e.id].parent_id
    /\ Len(e.children) = Cardinality({c \in Stored : users[c].parent_id = e.id})
    /\ \A c \in Stored :
          Listed(e.children, c) = IF users[c].parent_id = e.id THEN 1 ELSE 0

\* C22: with one request at a time, the children list of every user that a
\* fetch or a list-all returns holds exactly the users whose stored parent_id
\* is that user's id, each once, and a list-all returns every stored user once
C22_ChildrenAreLive ==
    /\ (Done("get") /\ response.status = 200) =>
          /\ response.body.user.id = request.user_id
          /\ EntryIsLive(response.body.user)
    /\ Done("get_all") =>
          LET listed == response.body.users
          IN  /\ Len(listed) = Cardinality(Stored)
              /\ \A i \in Stored : Listed(listed, i) = 1
              /\ \A k \in DOMAIN listed : EntryIsLive(listed[k])

\* a list-all after a reassignment: a child is listed under a parent that was
\* created after it and not under the older parent, which is listed as well
C22_Witness ==
    /\ Done("get_all")
    /\ \E k, j \in DOMAIN response.body.users :
          LET P2  == response.body.users[k]
              old == response.body.users[j]
          IN  /\ P2.user_type = "parent"
              /\ old.user_type = "parent"
              /\ old.id < P2.id
              /\ old.children = <<>>
              /\ Len(P2.children) = 1
              /\ P2.children[1].id < P2.id
              /\ P2.children[1].id > old.id

----------------------------------------------------------------------------
(* Creation bodies with a key of the other variant *)

\* the body p without the keys of K
Without(p, K) ==
    [f \in DOMAIN p |-> IF f \in K THEN AbsentOf(f) ELSE p[f]]

\* a child body that carries an address field or a children field as well
ChildBodyWithExtra(p) ==
    /\ ChildCreate(Without(p, AddressKeys \cup {"children"}))
    /\ \E f \in AddressKeys \cup {"children"} : p[f] # Absent

\* a parent body that carries a parent_id as well
ParentBodyWithParentId(p) ==
    /\ ParentCreate(Without(p, {"parent_id"}))
    /\ p.parent_id # AbsentId

\* C24: a creation with a child body that carries an address field or a
\* children field, or with a parent body that carries a parent_id, fails with
\* 422 and leaves the table as it was
C24_CreateWithExtraField ==
    [][(/\ Pending("create")
        /\ \/ ChildBodyWithExtra(request.payload)
           \/ ParentBodyWithParentId(request.payload)) =>
          (/\ response' = HTTPException(422, RequestValidationError)
           /\ users' = users)]_vars

\* a child body with a street was refused although it names a stored parent
C24_Witness ==
    /\ Done("create")
    /\ ChildBodyWithExtra(request.payload)
    /\ request.payload.street = "s"
    /\ request.payload.parent_id \in Parents
    /\ response.status = 422

----------------------------------------------------------------------------
(* Depth of the families *)

\* the entries of the children list of e have no children of their own
OneLevel(e) == \A k \in DOMAIN e.children : e.children[k].children = <<>>

\* C27: with one request at a time no stored user has a child as its parent,
\* and in every fetch and list-all response the entries of a children list
\* have empty children lists
C27_DepthAtMostTwo ==
    /\ \A i \in Stored : users[i].parent_id \notin Children
    /\ (Done("get") /\ response.status = 200) => OneLevel(response.body.user)
    /\ Done("get_all") =>
          \A k \in DOMAIN response.body.users : OneLevel(response.body.users[k])

\* a fetch returned a parent with two children
C27_Witness ==
    /\ Done("get")
    /\ response.status = 200
    /\ Len(response.body.user.children) = 2
    /\ OneLevel(response.body.user)

----------------------------------------------------------------------------
(* Names and null fields in updates *)

\* C23 as stated: every stored user has a first_name and a last_name that
\* are not the empty string, whatever creations and updates came before
C23_NamesNotEmpty ==
    \A i \in Stored : users[i].first_name # "" /\ users[i].last_name # ""

\* C26: an update of a parent with a body that names address fields only,
\* each as null, fails with status 400 and leaves the table, and with it the
\* address of the parent, as it was
C26_ParentNullAddress ==
    [][(/\ Pending("update")
        /\ request.user_id \in Parents
        /\ \E f \in AddressKeys : request.payload[f] = Null
        /\ \A f \in PayloadKeys :
              request.payload[f] =
                 IF f \in AddressKeys /\ request.payload[f] = Null
                 THEN Null ELSE AbsentOf(f)) =>
          (/\ response'.status = 400
           /\ users' = users
           /\ \A f \in AddressKeys :
                 users'[request.user_id][f] = users[request.user_id][f])]_vars

\* refused for street and city given as null, on a parent whose street an
\* earlier update had changed
C26_Witness ==
    /\ Done("update")
    /\ request.user_id \in Parents
    /\ request.payload.street = Null
    /\ request.payload.city = Null
    /\ response = HTTPException(400, NoValidFields)
    /\ users[request.user_id].street = "u"
    /\ users[request.user_id].city = "c"

\* the update body p without the fields it gives as null
WithoutNulls(p) ==
    [f \in DOMAIN p |->
        IF f \in UpdateKeys /\ p[f] = NoneOf(f) THEN AbsentOf(f) ELSE p[f]]

----------------------------------------------------------------------------
(* Properties of a delete that overlaps with fetches *)

\* whole families: no user of D has a parent_id outside D
NoOrphan(u) ==
    \A i \in DOMAIN u : u[i].parent_id # NullId => u[i].parent_id \in DOMAIN u

\* the rows `marked` by a delete of a parent are all in D or all out of D
AllOrNone(D, marked) == marked \cap D = {} \/ marked \subseteq D

\* the sessions whose delete of a parent has marked its rows
ParentDeletes ==
    {s \in Sess : /\ sessions[s].request.op = "delete"
                  /\ sessions[s].pc \in {"commit", "done"}
                  /\ sessions[s].user_type = "parent"}

\* the session s is about to commit a creation of a child of P, or an update
\* that moves a stored child to P, and no stored user has the id P any more
CommitsWithParentGone(s, P) ==
    LET r == sessions[s].request IN
    /\ sessions[s].pc = "commit"
    /\ r.op \in {"create", "update"}
    /\ r.payload.parent_id = P
    /\ P \notin {AbsentId, NullId}
    /\ P \notin DOMAIN users
    /\ r.op = "update" =>
          /\ r.user_id \in DOMAIN users
          /\ users[r.user_id].user_type = "child"
          /\ sessions[s].seen[r.user_id].parent_id # P

StoreRejects(s) ==
    LET r == sessions[s].request
        d == UserUpdate_model_dump(r.payload)
        changed == Changed(sessions[s].seen[r.user_id], d, update_dict(d))
    IN
    /\ sessions[s].pc = "commit"
    /\ \/ /\ r.op = "create"
          /\ ChildCreate(r.payload)
          /\ ~FlushesIn(users, NewUser(ChildCreate_model_dump(r.payload)))
       \/ /\ r.op = "update"
          /\ r.user_id \in DOMAIN users
          /\ "parent_id" \in changed
          /\ ~FlushesIn(users, SetAttrs(users[r.user_id], d, changed))

\* C28: a commit of a child creation, or of a change of a child's parent_id,
\* that a constraint of the store refuses is answered with the 400 of the
\* parent lookup (parent not found, or not a parent) and leaves the table
\* as it was
C28_StoreRejectionIsClientError ==
    [][\A s \in Sess :
          (StoreRejects(s) /\ sessions'[s].pc = "done") =>
              /\ sessions'[s].response \in {HTTPException(400, ParentNotFound),
                                            HTTPException(400, NotAParent)}
              /\ users' = users]_vars

\* C30: the children_deleted that a delete of a parent reports is the number
\* of child rows its commit removed, whatever other requests committed
\* between its count and its commit
C30_ReportedCountIsRemovedCount ==
    [][\A s \in Sess :
          (/\ sessions[s].pc = "commit"
           /\ sessions[s].request.op = "delete"
           /\ sessions[s].user_type = "parent"
           /\ sessions'[s].pc = "done") =>
              sessions'[s].response.body.children_deleted =
                  Cardinality((DOMAIN users \ DOMAIN users')
                                  \ {sessions[s].request.user_id})]_vars

====
